---- MODULE Spec2Model ----
(***************************************************************************)
(* Study-Bot: a Telegram bot (Telegraf) whose command handlers /add, /tag, *)
(* /list, /explain and /alert validate their text, call a remote store     *)
(* (Supabase) or a chat-completion API, and reply.  The repository holds   *)
(* three variants of the program:                                          *)
(*   "scoped"  src/bot.js lines 1-203   (rows carry chat_id, has /list)    *)
(*   "global"  src/bot.js lines 205-371 (no chat_id, /tag rejects empty)   *)
(*   "addonly" src/unnamed/part_000     (only /add)                        *)
(* src/README.md prints a further listing; it is read as documentation.    *)
(* A handler is an async function: it runs from one await to the next, and *)
(* other handlers run in between.  Each model action is one such stretch.  *)
(* Text is a sequence of one-character strings; the command word is kept   *)
(* as one symbol (it holds no space), so split(' ') sees it as one token.  *)
(***************************************************************************)
EXTENDS Integers, Sequences, FiniteSets, TLC

\* ---------------------------------------------------------------- bounds
NumProcs == 2        \* handler invocations that may be in flight at once
MaxCmds == 2         \* commands received in one run of Spec
MaxSeed == 120       \* rows of the members table and of the roster when a run of SpecSingle starts
MaxGenWords == 12    \* words of the longest text the generation API returns

\* ------------------------------------------------------ program constants
chunkSize == 50
AgeMin == 5
AgeMax == 120
WordLimitMin == 10
WordLimitMax == 1000

\* ------------------------------------------------------------- characters
Upper == <<"A","B","C","D","E","F","G","H","I","J","K","L","M",
           "N","O","P","Q","R","S","T","U","V","W","X","Y","Z">>
Lower == <<"a","b","c","d","e","f","g","h","i","j","k","l","m",
           "n","o","p","q","r","s","t","u","v","w","x","y","z">>
DigitChars == <<"0","1","2","3","4","5","6","7","8","9">>

Range(s) == { s[k] : k \in DOMAIN s }

\* [A-Za-z]
IsLetter(c) == c \in Range(Upper) \cup Range(Lower)
IsDigit(c) == c \in Range(DigitChars)
DigitVal(c) == (CHOOSE k \in DOMAIN DigitChars : DigitChars[k] = c) - 1
\* \s of a JavaScript regular expression, and what trim() strips
IsSpace(c) == c \in {" ", "\t", "\n"}

ToLower(c) ==
    IF c \in Range(Upper)
    THEN Lower[CHOOSE k \in DOMAIN Upper : Upper[k] = c]
    ELSE c

LowerStr(s) == [k \in DOMAIN s |-> ToLower(s[k])]

\* ------------------------------------------------------- string functions
\* String.prototype.split(' '): every single space separates, so two spaces
\* in a row give an empty token.
RECURSIVE SplitFrom(_, _, _)
SplitFrom(s, k, cur) ==
    IF k > Len(s) THEN <<cur>>
    ELSE IF s[k] = " " THEN <<cur>> \o SplitFrom(s, k + 1, <<>>)
    ELSE SplitFrom(s, k + 1, Append(cur, s[k]))

SplitSpace(s) == SplitFrom(s, 1, <<>>)

\* split(/\s+/): a run of whitespace separates; a leading or a trailing run
\* leaves an empty first or last token.
RECURSIVE SplitWsFrom(_, _, _)
SplitWsFrom(s, k, cur) ==
    IF k > Len(s) THEN <<cur>>
    ELSE IF IsSpace(s[k])
         THEN IF k > 1 /\ IsSpace(s[k - 1])
              THEN SplitWsFrom(s, k + 1, cur)
              ELSE <<cur>> \o SplitWsFrom(s, k + 1, <<>>)
    ELSE SplitWsFrom(s, k + 1, Append(cur, s[k]))

SplitWs(s) == SplitWsFrom(s, 1, <<>>)

\* Array.prototype.join(' ')
RECURSIVE JoinSpace(_)
JoinSpace(toks) ==
    IF toks = <<>> THEN <<>>
    ELSE IF Len(toks) = 1 THEN toks[1]
    ELSE toks[1] \o <<" ">> \o JoinSpace(Tail(toks))

\* Array.prototype.slice(from, to), 0-based, to excluded
Slice(s, from, to) ==
    LET hi == IF to < Len(s) THEN to ELSE Len(s)
    IN  IF from >= hi THEN <<>> ELSE SubSeq(s, from + 1, hi)

\* String.prototype.trim()
RECURSIVE TrimLeft(_)
TrimLeft(s) ==
    IF s # <<>> /\ IsSpace(s[1]) THEN TrimLeft(Tail(s)) ELSE s

RECURSIVE TrimRight(_)
TrimRight(s) ==
    IF s # <<>> /\ IsSpace(s[Len(s)])
    THEN TrimRight(SubSeq(s, 1, Len(s) - 1))
    ELSE s

Trim(s) == TrimRight(TrimLeft(s))

\* /^[A-Za-z]+$/.test(s)
IsAlphabetic(s) == s # <<>> /\ \A k \in DOMAIN s : IsLetter(s[k])

\* parseInt(s, 10): leading whitespace skipped, an optional sign, then the
\* longest run of digits; NaN (nan = TRUE) when there is no digit.
NaN == [nan |-> TRUE, val |-> 0]
Num(n) == [nan |-> FALSE, val |-> n]

RECURSIVE DigitsValue(_, _, _)
DigitsValue(s, k, acc) ==
    IF k <= Len(s) /\ IsDigit(s[k])
    THEN DigitsValue(s, k + 1, 10 * acc + DigitVal(s[k]))
    ELSE acc

ParseInt(str) ==
    LET s == TrimLeft(str)
        signed == s # <<>> /\ s[1] \in {"-", "+"}
        d == IF signed THEN Tail(s) ELSE s
    IN  IF d = <<>> \/ ~IsDigit(d[1]) THEN NaN
        ELSE IF signed /\ s[1] = "-" THEN Num(0 - DigitsValue(d, 1, 0))
        ELSE Num(DigitsValue(d, 1, 0))

\* String.prototype.includes(sub)
Includes(s, sub) ==
    \E k \in 0..Len(s) :
        /\ k + Len(sub) <= Len(s)
        /\ \A j \in 1..Len(sub) : s[k + j] = sub[j]

\* ------------------------------------------------------------------ state
Variants == {"scoped", "global", "addonly"}
Procs == 1..NumProcs
Chats == {1, 2}
\* ctx.from.id: one user issues the commands of a chat
UserOf(chat) == 6 + chat
NoChat == 0

VARIABLES
    variant,        \* which of the repository's programs runs
    members,        \* the store's members table, in insertion order
    explanations,   \* the store's explanations table
    group_members,  \* the store's alert roster per chat (never written here)
    inv,            \* per slot: the handler invocation in flight
    budget,         \* commands still to be received in this run
    delivered,      \* per chat: the mention batches Telegram accepted, in order
    origin          \* per members row: the chat its /add was issued in

vars == <<variant, members, explanations, group_members, inv, budget,
          delivered, origin>>

IdleInv ==
    [id |-> 0, cmd |-> "none", pc |-> "idle", chat |-> NoChat, user |-> 0, text |-> <<>>,
     first_name |-> <<>>, className |-> <<>>, age |-> 0,
     topic |-> <<>>, wordLimit |-> 0, explanation |-> <<>>,
     list |-> <<>>, i |-> 0,
     calls |-> <<>>, replies |-> <<>>, sent |-> <<>>]

\* A handler invocation as it starts: ctx.chat.id, ctx.from.id, ctx.message.text
NewInv(cmd, chat, user, text) ==
    [IdleInv EXCEPT !.cmd = cmd, !.pc = "running", !.chat = chat,
                    !.user = user, !.text = text]

\* ctx.reply(...) that ends the handler
Reply(v, kind, data) ==
    [v EXCEPT !.pc = "done", !.replies = Append(@, [kind |-> kind, data |-> data])]

\* a call to the store, the generation API or Telegram is issued and awaited
Await(v, op, pc) ==
    [v EXCEPT !.pc = pc, !.calls = Append(@, [op |-> op, out |-> "pending"])]

\* the awaited call comes back
Settle(v, out) ==
    [v EXCEPT !.calls[Len(v.calls)].out = out]

\* args = ctx.message.text.split(' ').slice(1)
Args(text) == Tail(SplitSpace(text))

HasHandler(var, cmd) ==
    CASE cmd = "add" -> TRUE
      [] cmd = "list" -> var = "scoped"
      [] OTHER -> var \in {"scoped", "global"}

\* -------------------------------------------------------------------- /add
\* !(isNaN(n) || n < lo || n > hi)
InRange(n, lo, hi) == ~n.nan /\ n.val >= lo /\ n.val <= hi

\* mutant: the age is never checked
AddValidateNoRange(args) ==
    IF ~IsAlphabetic(args[1]) THEN "pattern"
    ELSE IF Trim(args[2]) = <<>> THEN "empty"
    ELSE "ok"

\* mutant: the name pattern lost its anchors, /[A-Za-z]+/
AddValidateUnanchored(args) ==
    IF ~(\E k \in DOMAIN args[1] : IsLetter(args[1][k])) THEN "pattern"
    ELSE IF Trim(args[2]) = <<>> THEN "empty"
    ELSE IF ~InRange(ParseInt(args[3]), AgeMin, AgeMax) THEN "range"
    ELSE "ok"

\* mutant: the class is checked before the name
AddValidateClassFirst(args) ==
    IF Trim(args[2]) = <<>> THEN "empty"
    ELSE IF ~IsAlphabetic(args[1]) THEN "pattern"
    ELSE IF ~InRange(ParseInt(args[3]), AgeMin, AgeMax) THEN "range"
    ELSE "ok"

AddValidate(args) ==
    IF ~IsAlphabetic(args[1]) THEN "pattern"
    ELSE IF Trim(args[2]) = <<>> THEN "empty"
    ELSE IF ~InRange(ParseInt(args[3]), AgeMin, AgeMax) THEN "range"
    ELSE "ok"

AddOnReceive(var, chat, user, text) ==
    LET v == NewInv("add", chat, user, text)
        args == Args(text)
    IN  IF Len(args) # 3 THEN Reply(v, "usage", <<>>)
        ELSE LET err == AddValidate(args)
             IN  IF err # "ok" THEN Reply(v, err, <<>>)
                 ELSE Await([v EXCEPT !.first_name = args[1],
                                      !.className = args[2],
                                      !.age = ParseInt(args[3]).val],
                            "members.insert", "await_insert")

\* the row of supabase.from('members').insert([...]); the store assigns id
MemberRow(var, v, id) ==
    [chat_id |-> IF var = "scoped" THEN v.chat ELSE NoChat,
     first_name |-> v.first_name, class |-> v.className, age |-> v.age,
     added_by |-> v.user, id |-> id]

AddSuccessData(var, v, id) ==
    IF var = "scoped"
    THEN [chat_id |-> v.chat, first_name |-> v.first_name,
          class |-> v.className, age |-> v.age]
    ELSE [id |-> id, first_name |-> v.first_name,
          class |-> v.className, age |-> v.age]

AddOnInsert(var, v, out, id) ==
    CASE out = "ok" -> Reply(Settle(v, out), "success", AddSuccessData(var, v, id))
      [] out = "error" -> Reply(Settle(v, out), "store_error", <<>>)
      [] out = "throw" -> Reply(Settle(v, out), "unexpected", <<>>)

\* ------------------------------------------------------ chunked fan-out
\* mutant: the slice ends one short
ChunkShort(list, i) == Slice(list, i, i + chunkSize - 1)

\* mentions.slice(i, i + chunkSize)
Chunk(list, i) == Slice(list, i, i + chunkSize)

\* i += chunkSize
NextIndex(i) == i + chunkSize

Pending(chunk) == [chunk |-> chunk, status |-> "pending"]

\* mutant: every batch is sent at once and the sends are awaited together
BeginLoopAll(v, list) ==
    [v EXCEPT !.pc = "sending", !.list = list, !.i = 0,
              !.sent = [k \in 1..((Len(list) + chunkSize - 1) \div chunkSize) |->
                            Pending(Chunk(list, (k - 1) * chunkSize))]]

\* for (let i = 0; ...) entered with a non-empty list: the first
\* await ctx.reply(chunk) is issued
BeginLoop(v, list) ==
    [v EXCEPT !.pc = "sending", !.list = list, !.i = 0,
              !.sent = <<Pending(Chunk(list, 0))>>]

\* mutant: a rejected send is skipped and the loop goes on
OnSendResultContinue(v, ok) ==
    LET j == NextIndex(v.i)
        w == [v EXCEPT !.sent[Len(v.sent)].status = IF ok THEN "ok" ELSE "failed",
                       !.i = j]
    IN  IF j < Len(v.list)
        THEN [w EXCEPT !.sent = Append(@, Pending(Chunk(v.list, j)))]
        ELSE [w EXCEPT !.pc = "done"]

\* the awaited ctx.reply(chunk) resolves (ok) or rejects: a rejection leaves
\* the loop for the handler's catch block, which replies once
OnSendResult(v, ok) ==
    IF ok
    THEN LET j == NextIndex(v.i)
             w == [v EXCEPT !.sent[Len(v.sent)].status = "ok", !.i = j]
         IN  IF j < Len(v.list)
             THEN [w EXCEPT !.sent = Append(@, Pending(Chunk(v.list, j)))]
             ELSE [w EXCEPT !.pc = "done"]
    ELSE Reply([v EXCEPT !.sent[Len(v.sent)].status = "failed"], "unexpected", <<>>)

\* ------------------------------------------------------------------- /tag
\* .ilike('class', className): case-insensitive match (the texts of this
\* model hold no % or _ wildcard)
ILike(value, pattern) == LowerStr(value) = LowerStr(pattern)

TagChecksEmpty(var) == var = "global"

TagOnReceive(var, chat, user, text) ==
    LET v == NewInv("tag", chat, user, text)
        args == Args(text)
    IN  IF Len(args) # 1 THEN Reply(v, "usage", <<>>)
        ELSE LET className == Trim(args[1])
             IN  IF TagChecksEmpty(var) /\ className = <<>>
                 THEN Reply(v, "empty", <<>>)
                 ELSE Await([v EXCEPT !.className = className],
                            "members.select", "await_tag")

\* mutant: the query lost its chat_id filter
TagRowsAnyChat(var, v, table) ==
    SelectSeq(table, LAMBDA r : ILike(r.class, v.className))

\* .from('members').select(...)[.eq('chat_id', ctx.chat.id)].ilike('class', c)
TagRows(var, v, table) ==
    SelectSeq(table, LAMBDA r :
        /\ var = "scoped" => r.chat_id = v.chat
        /\ ILike(r.class, v.className))

\* members.map(m => `[${m.first_name}](tg://user?id=${m.added_by})`)
TagMentions(rows) ==
    [k \in DOMAIN rows |-> [name |-> rows[k].first_name, id |-> rows[k].added_by]]

TagOnQuery(v, out, rows) ==
    CASE out = "throw" -> Reply(Settle(v, out), "unexpected", <<>>)
      [] out = "error" -> Reply(Settle(v, out), "store_error", <<>>)
      [] out = "ok" ->
            IF rows = <<>> THEN Reply(Settle(v, out), "not_found", <<>>)
            ELSE BeginLoop(Settle(v, out), TagMentions(rows))

\* ------------------------------------------------------------------ /list
ListOnReceive(var, chat, user, text) ==
    Await(NewInv("list", chat, user, text), "members.select", "await_list")

\* .from('members').select('first_name, class, age').eq('chat_id', ctx.chat.id)
ListRows(v, table) == SelectSeq(table, LAMBDA r : r.chat_id = v.chat)

ListLines(rows) ==
    [k \in DOMAIN rows |->
        [first_name |-> rows[k].first_name, class |-> rows[k].class,
         age |-> rows[k].age]]

ListOnQuery(v, out, rows) ==
    CASE out = "throw" -> Reply(Settle(v, out), "unexpected", <<>>)
      [] out = "error" -> Reply(Settle(v, out), "store_error", <<>>)
      [] out = "ok" ->
            IF rows = <<>> THEN Reply(Settle(v, out), "not_found", <<>>)
            ELSE Reply(Settle(v, out), "list", ListLines(rows))

\* --------------------------------------------------------------- /explain
\* "No explanation found."
DefaultExplanation ==
    <<"N","o"," ","e","x","p","l","a","n","a","t","i","o","n"," ",
      "f","o","u","n","d",".">>

\* apiResponse.data?.choices?.[0]?.message?.content || "No explanation found."
\* (a missing content and an empty one both fall back)
ContentOrDefault(resp) ==
    IF resp.has /\ resp.content # <<>> THEN resp.content ELSE DefaultExplanation

\* mutant: one token too many is kept
TruncateOneMore(explanation, wordLimit) ==
    JoinSpace(Slice(SplitWs(explanation), 0, wordLimit + 1))

\* explanation.split(/\s+/).slice(0, wordLimit).join(" ")
Truncate(explanation, wordLimit) ==
    JoinSpace(Slice(SplitWs(explanation), 0, wordLimit))

ExplainOnReceive(var, chat, user, text) ==
    LET v == NewInv("explain", chat, user, text)
        args == Args(text)
    IN  IF Len(args) < 2 THEN Reply(v, "usage", <<>>)
        ELSE LET wordLimitStr == args[Len(args)]
                 topic == Trim(JoinSpace(Slice(args, 0, Len(args) - 1)))
                 wordLimit == ParseInt(wordLimitStr)
             IN  IF topic = <<>> \/ ~InRange(wordLimit, WordLimitMin, WordLimitMax)
                 THEN Reply(v, "invalid", <<>>)
                 ELSE Await([v EXCEPT !.topic = topic, !.wordLimit = wordLimit.val],
                            "generate", "await_generate")

\* axios.post resolves with resp, or rejects (the handler's catch replies)
ExplainOnGenerate(v, out, resp) ==
    IF out = "throw" THEN Reply(Settle(v, out), "gen_error", <<>>)
    ELSE Await([Settle(v, out) EXCEPT
                    !.explanation = Truncate(ContentOrDefault(resp), v.wordLimit)],
               "explanations.insert", "await_save")

ExplanationRow(var, v) ==
    [topic |-> v.topic, word_limit |-> v.wordLimit, user_id |-> v.user,
     chat_id |-> IF var = "scoped" THEN v.chat ELSE NoChat,
     response |-> v.explanation]

\* await supabase.from("explanations").insert([...]): the result is not read,
\* so an error value is ignored; a rejection reaches the handler's catch
ExplainOnSave(v, out) ==
    IF out = "throw" THEN Reply(Settle(v, out), "gen_error", <<>>)
    ELSE Reply(Settle(v, out), "success",
               [topic |-> v.topic, wordLimit |-> v.wordLimit,
                explanation |-> v.explanation])

\* ----------------------------------------------------------------- /alert
Everyone == <<"e","v","e","r","y","o","n","e">>

Statuses == {"creator", "administrator", "member", "left"}

\* mutant: plain members pass the check
IsElevatedOrMember(status) == status \in {"creator", "administrator", "member"}

\* ["creator", "administrator"].includes(chatMember.status)
IsElevated(status) == status \in {"creator", "administrator"}

AlertOnReceive(var, chat, user, text) ==
    LET v == NewInv("alert", chat, user, text)
    IN  IF ~Includes(text, Everyone) THEN [v EXCEPT !.pc = "done"]
        ELSE Await(v, "tg.getChatMember", "await_member")

\* chatMember = await ctx.getChatMember(ctx.from.id); the call's outcome is
\* kept as the status it returned
AlertOnMember(var, v, out, status) ==
    IF out = "throw" THEN Reply(Settle(v, out), "unexpected", <<>>)
    ELSE IF ~IsElevated(status) THEN Reply(Settle(v, status), "denied", <<>>)
    ELSE IF var = "global" THEN Await(Settle(v, status), "tg.getChat", "await_chat")
    ELSE Await(Settle(v, status), "group_members.select", "await_roster")

\* "global" only: await ctx.getChat(), then await ctx.getChatAdministrators()
AlertOnChat(v, out) ==
    IF out = "throw" THEN Reply(Settle(v, out), "unexpected", <<>>)
    ELSE Await(Settle(v, out), "tg.getChatAdministrators", "await_admins")

AlertOnAdmins(v, out) ==
    IF out = "throw" THEN Reply(Settle(v, out), "unexpected", <<>>)
    ELSE Await(Settle(v, out), "group_members.select", "await_roster")

\* savedMembers...map(m => `[fire](tg://user?id=${m.user_id})`)
AlertMentions(rows) == [k \in DOMAIN rows |-> [name |-> <<"*">>, id |-> rows[k]]]

\* const { data: savedMembers } = await ...: the error is not read, and an
\* error value leaves data null
AlertOnRoster(v, out, rows) ==
    CASE out = "throw" -> Reply(Settle(v, out), "unexpected", <<>>)
      [] out = "error" -> Reply(Settle(v, out), "empty_roster", <<>>)
      [] out = "ok" ->
            IF rows = <<>> THEN Reply(Settle(v, out), "empty_roster", <<>>)
            ELSE BeginLoop(Settle(v, out), AlertMentions(rows))

\* ----------------------------------------------------------------- inputs
RECURSIVE Spaced(_)
Spaced(toks) ==
    IF toks = <<>> THEN <<>> ELSE <<" ">> \o toks[1] \o Spaced(Tail(toks))

\* the message text: the command word, then each token after one space
Text(cmd, toks) == <<cmd>> \o Spaced(toks)

RECURSIVE Words(_, _)
Words(k, sep) ==
    IF k = 0 THEN <<>>
    ELSE IF k = 1 THEN <<"w">>
    ELSE <<"w">> \o sep \o Words(k - 1, sep)

NameAl == <<"A","l">>
ClassBT == <<"B","T">>

AddTexts ==
    { Text("/add", <<n, c, a>>) :
        n \in {NameAl, <<"S","3">>},
        c \in {ClassBT, <<>>},
        a \in {<<"5">>, <<"1","2","0">>, <<"4">>, <<"1","2","1">>, <<"x">>} }
    \cup { Text("/add", <<NameAl, c, <<"5">> >>) : c \in {<<"c">>, <<"\t">>} }
    \cup { Text("/add", <<NameAl, ClassBT, a>>) : a \in {<<"5","x">>, <<"-","5">>} }
    \cup { Text("/add", <<>>), Text("/add", <<NameAl, ClassBT>>),
           Text("/add", <<NameAl, ClassBT, <<"5">>, <<"5">> >>) }

TagTexts ==
    { Text("/tag", toks) :
        toks \in { <<>>, << <<>> >>, << <<"\t">> >>, <<ClassBT>>, << <<"b","t">> >>,
                   << <<"c">> >>, <<ClassBT, <<"c">> >> } }

ListTexts == { Text("/list", <<>>) }

ExplainTexts ==
    { Text("/explain", toks) :
        toks \in { <<>>, << <<"T">> >>, << <<"T">>, <<"1","0">> >>,
                   << <<"T">>, <<"T">>, <<"1","1">> >>,
                   << <<"T">>, <<"1","0","0","0">> >>,
                   << <<"T">>, <<"5">> >>, << <<"T">>, <<"9">> >>,
                   << <<"T">>, <<"1","0","0","1">> >>,
                   << <<"T">>, <<"x">> >>, << <<>>, <<"1","0">> >> } }

AlertTexts ==
    { Text("/alert", toks) : toks \in { <<>>, <<Everyone>>, << <<"a","l","l">> >> } }

\* what the generation API may answer: no content, an empty one, and texts
\* of up to MaxGenWords words, also with leading, trailing and mixed whitespace
GenResponses ==
    { [has |-> FALSE, content |-> <<>>] }
    \cup { [has |-> TRUE, content |-> c] :
            c \in { <<>>, <<" ">>,
                    Words(1, <<" ">>),
                    Words(WordLimitMin, <<" ">>),
                    Words(MaxGenWords, <<" ">>),
                    <<" ">> \o Words(MaxGenWords, <<" ">>),
                    Words(MaxGenWords, <<"\n","\t">>) \o <<"\n">> } }

\* ---------------------------------------------------------------- actions
\* a new command takes the first free slot
FreeSlot(p) ==
    /\ budget > 0
    /\ inv[p].pc = "idle"
    /\ \A q \in Procs : q < p => inv[q].pc # "idle"

Step(p, v) ==
    /\ inv' = [inv EXCEPT ![p] = v]
    /\ UNCHANGED <<variant, group_members>>

\* the update that started the invocation: commands are numbered as received
Stamp(v) == [v EXCEPT !.id = budget]

ReceiveAdd(p) ==
    /\ FreeSlot(p) /\ HasHandler(variant, "add")
    /\ \E chat \in Chats, text \in AddTexts :
          Step(p, Stamp(AddOnReceive(variant, chat, UserOf(chat), text)))
    /\ budget' = budget - 1
    /\ UNCHANGED <<members, explanations, delivered, origin>>

ReceiveTag(p) ==
    /\ FreeSlot(p) /\ HasHandler(variant, "tag")
    /\ \E chat \in Chats, text \in TagTexts :
          Step(p, Stamp(TagOnReceive(variant, chat, UserOf(chat), text)))
    /\ budget' = budget - 1
    /\ UNCHANGED <<members, explanations, delivered, origin>>

ReceiveList(p) ==
    /\ FreeSlot(p) /\ HasHandler(variant, "list")
    /\ \E chat \in Chats, text \in ListTexts :
          Step(p, Stamp(ListOnReceive(variant, chat, UserOf(chat), text)))
    /\ budget' = budget - 1
    /\ UNCHANGED <<members, explanations, delivered, origin>>

ReceiveExplain(p) ==
    /\ FreeSlot(p) /\ HasHandler(variant, "explain")
    /\ \E chat \in Chats, text \in ExplainTexts :
          Step(p, Stamp(ExplainOnReceive(variant, chat, UserOf(chat), text)))
    /\ budget' = budget - 1
    /\ UNCHANGED <<members, explanations, delivered, origin>>

ReceiveAlert(p) ==
    /\ FreeSlot(p) /\ HasHandler(variant, "alert")
    /\ \E chat \in Chats, text \in AlertTexts :
          Step(p, Stamp(AlertOnReceive(variant, chat, UserOf(chat), text)))
    /\ budget' = budget - 1
    /\ UNCHANGED <<members, explanations, delivered, origin>>

\* the members insert comes back; on success the store has appended the row
InsertResponds(p) ==
    /\ inv[p].pc = "await_insert"
    /\ \E out \in {"ok", "error", "throw"} :
          LET id == Len(members) + 1
          IN  /\ Step(p, AddOnInsert(variant, inv[p], out, id))
              /\ members' = IF out = "ok"
                            THEN Append(members, MemberRow(variant, inv[p], id))
                            ELSE members
              /\ origin' = IF out = "ok" THEN Append(origin, inv[p].chat) ELSE origin
    /\ UNCHANGED <<explanations, budget, delivered>>

TagQueryResponds(p) ==
    /\ inv[p].pc = "await_tag"
    /\ \E out \in {"ok", "error", "throw"} :
          Step(p, TagOnQuery(inv[p], out, TagRows(variant, inv[p], members)))
    /\ UNCHANGED <<members, explanations, budget, delivered, origin>>

ListQueryResponds(p) ==
    /\ inv[p].pc = "await_list"
    /\ \E out \in {"ok", "error", "throw"} :
          Step(p, ListOnQuery(inv[p], out, ListRows(inv[p], members)))
    /\ UNCHANGED <<members, explanations, budget, delivered, origin>>

GenerateResponds(p) ==
    /\ inv[p].pc = "await_generate"
    /\ \E out \in {"ok", "throw"}, resp \in GenResponses :
          Step(p, ExplainOnGenerate(inv[p], out, resp))
    /\ UNCHANGED <<members, explanations, budget, delivered, origin>>

SaveResponds(p) ==
    /\ inv[p].pc = "await_save"
    /\ \E out \in {"ok", "error", "throw"} :
          /\ Step(p, ExplainOnSave(inv[p], out))
          /\ explanations' = IF out = "ok"
                             THEN Append(explanations, ExplanationRow(variant, inv[p]))
                             ELSE explanations
    /\ UNCHANGED <<members, budget, delivered, origin>>

ChatMemberResponds(p) ==
    /\ inv[p].pc = "await_member"
    /\ \E out \in {"ok", "throw"}, status \in Statuses :
          Step(p, AlertOnMember(variant, inv[p], out, status))
    /\ UNCHANGED <<members, explanations, budget, delivered, origin>>

ChatResponds(p) ==
    /\ inv[p].pc = "await_chat"
    /\ \E out \in {"ok", "throw"} : Step(p, AlertOnChat(inv[p], out))
    /\ UNCHANGED <<members, explanations, budget, delivered, origin>>

AdminsResponds(p) ==
    /\ inv[p].pc = "await_admins"
    /\ \E out \in {"ok", "throw"} : Step(p, AlertOnAdmins(inv[p], out))
    /\ UNCHANGED <<members, explanations, budget, delivered, origin>>

RosterResponds(p) ==
    /\ inv[p].pc = "await_roster"
    /\ \E out \in {"ok", "error", "throw"} :
          Step(p, AlertOnRoster(inv[p], out, group_members[inv[p].chat]))
    /\ UNCHANGED <<members, explanations, budget, delivered, origin>>

SendCompletes(p) ==
    /\ inv[p].pc = "sending"
    /\ \E ok \in BOOLEAN :
          /\ Step(p, OnSendResult(inv[p], ok))
          /\ delivered' = IF ok
                          THEN [delivered EXCEPT ![inv[p].chat] =
                                    Append(@, [inv |-> inv[p].id, i |-> inv[p].i])]
                          ELSE delivered
    /\ UNCHANGED <<members, explanations, budget, origin>>

\* the handler has returned; its slot is free again
Retire(p) ==
    /\ inv[p].pc = "done"
    /\ Step(p, IdleInv)
    /\ UNCHANGED <<members, explanations, budget, delivered, origin>>

\* ---------------------------------------------------------- specification
\* n valid rows of one class in chat 1, as n successful /add commands leave
\* them, and a roster of n users for chat 1
SeedRows(var, n) ==
    [k \in 1..n |->
        [chat_id |-> IF var = "scoped" THEN 1 ELSE NoChat,
         first_name |-> NameAl, class |-> ClassBT, age |-> 18,
         added_by |-> k, id |-> k]]

InitWith(n, b) ==
    /\ variant \in Variants
    /\ members = SeedRows(variant, n)
    /\ explanations = <<>>
    /\ group_members = [c \in Chats |-> IF c = 1 THEN [k \in 1..n |-> k] ELSE <<>>]
    /\ inv = [p \in Procs |-> IdleInv]
    /\ budget = b
    /\ delivered = [c \in Chats |-> <<>>]
    /\ origin = [k \in 1..n |-> 1]

Init == \E n \in 0..1 : InitWith(n, MaxCmds)

InitSingle == \E n \in 0..MaxSeed : InitWith(n, 1)

\* a table and a roster of one full batch and one more row
InitConcurrent == InitWith(chunkSize + 1, MaxCmds)

Next ==
    \E p \in Procs :
        \/ ReceiveAdd(p)
        \/ ReceiveTag(p)
        \/ ReceiveList(p)
        \/ ReceiveExplain(p)
        \/ ReceiveAlert(p)
        \/ InsertResponds(p)
        \/ TagQueryResponds(p)
        \/ ListQueryResponds(p)
        \/ GenerateResponds(p)
        \/ SaveResponds(p)
        \/ ChatMemberResponds(p)
        \/ ChatResponds(p)
        \/ AdminsResponds(p)
        \/ RosterResponds(p)
        \/ SendCompletes(p)
        \/ Retire(p)

\* concurrent commands over small tables
Spec == Init /\ [][Next]_vars

\* one command over tables of up to MaxSeed rows
SpecSingle == InitSingle /\ [][Next]_vars

\* concurrent commands whose send loops take two batches
SpecConcurrent == InitConcurrent /\ [][Next]_vars

\* ----------------------------------------------------------------- claims
CeilDiv(n, d) == (n + d - 1) \div d

RECURSIVE Concat(_)
Concat(chunks) ==
    IF chunks = <<>> THEN <<>> ELSE chunks[1] \o Concat(Tail(chunks))

Chunks(v) == [k \in DOMAIN v.sent |-> v.sent[k].chunk]

IsFanout(v) == v.cmd \in {"tag", "alert"}

AllSent(v) == \A k \in DOMAIN v.sent : v.sent[k].status = "ok"

\* what the handler was to mention: the rows the store holds for its query
\* (under SpecSingle no other command changes the tables meanwhile)
Recipients(v) ==
    IF v.cmd = "tag" THEN TagMentions(TagRows(variant, v, members))
    ELSE AlertMentions(group_members[v.chat])

\* C1: a /tag or /alert invocation that finished its send loop with no send
\* failing has emitted exactly ceil(n/50) messages for its n recipients, each
\* but possibly the last with exactly 50 mentions, and the messages' mentions
\* in emission order are the recipient list itself.
C1_ChunksPartitionList ==
    \A p \in Procs :
        LET v == inv[p]
        IN  (IsFanout(v) /\ v.pc = "done" /\ v.sent # <<>> /\ AllSent(v)) =>
                /\ Len(Recipients(v)) > 0
                /\ Len(v.sent) = CeilDiv(Len(Recipients(v)), chunkSize)
                /\ \A k \in 1..(Len(v.sent) - 1) : Len(v.sent[k].chunk) = chunkSize
                /\ Len(v.sent[Len(v.sent)].chunk) \in 1..chunkSize
                /\ Concat(Chunks(v)) = Recipients(v)

\* a /tag over more than two full batches, ending in a partial one, all sent
C1_Witness ==
    \E p \in Procs :
        /\ inv[p].cmd = "tag" /\ inv[p].pc = "done" /\ AllSent(inv[p])
        /\ Len(inv[p].list) > 2 * chunkSize
        /\ Len(inv[p].sent) = 3
        /\ Len(inv[p].sent[3].chunk) < chunkSize

\* C2 as stated: after a failed batch send the later batches of the
\* invocation are still sent, so a finished invocation has attempted every
\* batch of its list however many sends failed.
C2_ContinuesAfterFailure ==
    \A p \in Procs :
        LET v == inv[p]
        IN  (/\ IsFanout(v) /\ v.pc = "done"
             /\ \E k \in DOMAIN v.sent : v.sent[k].status = "failed") =>
                /\ Len(v.sent) = CeilDiv(Len(v.list), chunkSize)
                /\ Concat(Chunks(v)) = v.list

\* C2 amended: a failed batch send is not resent and ends the loop: the
\* failed batch is the last one attempted, the batches attempted are the
\* leading batches of the list in order, and the handler ends with the one
\* generic error reply.
C2_AbortsAfterFailure ==
    \A p \in Procs :
        LET v == inv[p]
        IN  \A k \in DOMAIN v.sent :
                v.sent[k].status = "failed" =>
                    /\ IsFanout(v)
                    /\ k = Len(v.sent)
                    /\ v.pc = "done"
                    /\ Len(v.replies) = 1 /\ v.replies[1].kind = "unexpected"
                    /\ Concat(Chunks(v)) = SubSeq(v.list, 1, Len(Concat(Chunks(v))))
                    /\ \A j \in 1..(k - 1) :
                          /\ v.sent[j].status = "ok"
                          /\ Len(v.sent[j].chunk) = chunkSize

\* the second of three batches failed: the third was never attempted
C2_Witness ==
    \E p \in Procs :
        /\ IsFanout(inv[p]) /\ inv[p].pc = "done"
        /\ Len(inv[p].list) > 2 * chunkSize
        /\ Len(inv[p].sent) = 2
        /\ inv[p].sent[2].status = "failed"

InputErrorKinds == {"usage", "pattern", "empty", "range", "invalid"}
GatewayErrorKinds == {"store_error", "unexpected", "gen_error"}

LastToken(text) == Args(text)[Len(Args(text))]

\* /add text of three tokens one of which the validation rules reject
AddInputBad(text) ==
    /\ Len(Args(text)) = 3
    /\ \/ ~IsAlphabetic(Args(text)[1])
       \/ Trim(Args(text)[2]) = <<>>
       \/ ParseInt(Args(text)[3]).nan
       \/ ParseInt(Args(text)[3]).val < AgeMin
       \/ ParseInt(Args(text)[3]).val > AgeMax

\* /explain text whose topic is empty or whose word limit is no number in 10..1000
ExplainInputBad(text) ==
    /\ Len(Args(text)) >= 2
    /\ \/ Trim(JoinSpace(SubSeq(Args(text), 1, Len(Args(text)) - 1))) = <<>>
       \/ ParseInt(LastToken(text)).nan
       \/ ParseInt(LastToken(text)).val < WordLimitMin
       \/ ParseInt(LastToken(text)).val > WordLimitMax

\* C3: an invocation that replied with an input-class error has called no
\* gateway (nor Telegram) at all; /add with a bad name, class or age and
\* /explain with an empty topic or a bad word limit never issue a call, at
\* any point of the invocation, and end in an input-class error reply.
C3_InputErrorsBeforeCalls ==
    \A p \in Procs :
        LET v == inv[p]
        IN  /\ (\E k \in DOMAIN v.replies : v.replies[k].kind \in InputErrorKinds) =>
                    v.calls = <<>>
            /\ (v.cmd = "add" /\ AddInputBad(v.text)) =>
                    /\ v.calls = <<>>
                    /\ v.pc = "done" => /\ Len(v.replies) = 1
                                        /\ v.replies[1].kind \in InputErrorKinds
            /\ (v.cmd = "explain" /\ ExplainInputBad(v.text)) =>
                    /\ v.calls = <<>>
                    /\ v.pc = "done" => /\ Len(v.replies) = 1
                                        /\ v.replies[1].kind \in InputErrorKinds

\* /explain T 5 was rejected without a call
C3_Witness ==
    \E p \in Procs :
        /\ inv[p].cmd = "explain" /\ inv[p].pc = "done"
        /\ Len(Args(inv[p].text)) = 2
        /\ ParseInt(LastToken(inv[p].text)) = Num(5)
        /\ inv[p].replies[1].kind = "invalid"
        /\ inv[p].calls = <<>>

C4_RowsValid ==
    \A k \in DOMAIN members :
        /\ members[k].age >= AgeMin /\ members[k].age <= AgeMax
        /\ IsAlphabetic(members[k].first_name)
        /\ Trim(members[k].class) # <<>>

IsPrefix(a, b) == Len(a) <= Len(b) /\ a = SubSeq(b, 1, Len(a))

\* C4: every row of the members table has an age in 5..120, an alphabetic
\* first_name and a class that is not empty once trimmed; and every step
\* leaves the rows the members and explanations tables held in place,
\* unchanged (the tables only grow at their end).
C4_ValidRowsAppendOnly ==
    /\ []C4_RowsValid
    /\ [][IsPrefix(members, members') /\ IsPrefix(explanations, explanations')]_vars

\* two /add commands of one run inserted the rows with the boundary ages
C4_Witness ==
    /\ \E k \in DOMAIN members : members[k].age = AgeMin
    /\ \E k \in DOMAIN members : members[k].age = AgeMax
    /\ Len(members) >= 2

IsStatus(out) == out \in Statuses

\* C5: in /alert, a roster query, a batch send or any later call happens
\* only after getChatMember returned creator or administrator; once it
\* returned another status the invocation is over, its only reply is the
\* denial, and it has queried no roster and sent no batch.
C5_AlertAuthorizesFirst ==
    \A p \in Procs :
        LET v == inv[p]
        IN  v.cmd = "alert" =>
                /\ (Len(v.calls) > 1 \/ v.sent # <<>>) =>
                        /\ v.calls[1].op = "tg.getChatMember"
                        /\ v.calls[1].out \in {"creator", "administrator"}
                /\ (/\ v.calls # <<>>
                    /\ IsStatus(v.calls[1].out)
                    /\ v.calls[1].out \notin {"creator", "administrator"}) =>
                        /\ v.pc = "done"
                        /\ Len(v.replies) = 1 /\ v.replies[1].kind = "denied"
                        /\ Len(v.calls) = 1
                        /\ v.sent = <<>>

\* /alert everyone by a plain member of a chat whose roster is not empty
C5_Witness ==
    \E p \in Procs :
        /\ inv[p].cmd = "alert" /\ inv[p].pc = "done"
        /\ inv[p].calls # <<>> /\ inv[p].calls[1].out = "member"
        /\ inv[p].replies[1].kind = "denied"
        /\ group_members[inv[p].chat] # <<>>

CallOut(v, op) ==
    { v.calls[k].out : k \in { j \in DOMAIN v.calls : v.calls[j].op = op } }

\* C6: in /explain, once the generation call has succeeded, a failed
\* explanations insert (an error value or a rejection) still ends in the one
\* success reply with the topic and the truncated explanation.
C6_SaveFailureSwallowed ==
    \A p \in Procs :
        LET v == inv[p]
        IN  (/\ v.cmd = "explain" /\ v.pc = "done"
             /\ CallOut(v, "generate") = {"ok"}
             /\ CallOut(v, "explanations.insert") \cap {"error", "throw"} # {}) =>
                /\ Len(v.replies) = 1
                /\ v.replies[1].kind = "success"
                /\ v.replies[1].data.topic = v.topic
                /\ v.replies[1].data.explanation = v.explanation

FailableOps == {"members.insert", "members.select", "group_members.select", "generate"}

\* C7: an invocation in which a members insert, a members query, a roster
\* query or a generation call failed (error value or rejection) ends with
\* exactly one reply, the generic gateway-error reply; never a success, an
\* empty-result or an empty-roster reply.
C7_FailedCallGivesErrorReply ==
    \A p \in Procs :
        LET v == inv[p]
        IN  (/\ v.pc = "done"
             /\ \E k \in DOMAIN v.calls :
                    /\ v.calls[k].op \in FailableOps
                    /\ v.calls[k].out \in {"error", "throw"}) =>
                /\ Len(v.replies) = 1
                /\ v.replies[1].kind \in GatewayErrorKinds

\* the kind of reply the claim's order of checks asks for
AddExpectedKind(args) ==
    IF ~IsAlphabetic(args[1]) THEN "pattern"
    ELSE IF Trim(args[2]) = <<>> THEN "empty"
    ELSE "range"

\* C8: a finished /add of three tokens that the rules reject has exactly one
\* reply: the name message when the name fails, whatever class and age are;
\* the class message when the name passes and the class is empty, whatever
\* the age is; the age message only when name and class both pass.
C8_AddFirstFailingFieldWins ==
    \A p \in Procs :
        LET v == inv[p]
        IN  (v.cmd = "add" /\ v.pc = "done" /\ Len(Args(v.text)) = 3) =>
                /\ Len(v.replies) = 1
                /\ IF AddInputBad(v.text)
                   THEN v.replies[1].kind = AddExpectedKind(Args(v.text))
                   ELSE v.replies[1].kind \notin {"pattern", "empty", "range"}

\* name, class and age all fail: the reply is the name message
C8_Witness ==
    \E p \in Procs :
        /\ inv[p].cmd = "add" /\ inv[p].pc = "done"
        /\ Len(Args(inv[p].text)) = 3
        /\ ~IsAlphabetic(Args(inv[p].text)[1])
        /\ Trim(Args(inv[p].text)[2]) = <<>>
        /\ ParseInt(Args(inv[p].text)[3]).nan
        /\ inv[p].replies[1].kind = "pattern"

\* whitespace-delimited tokens, counted as split(/\s+/) counts them
WordCount(s) == Len(SplitWs(s))

\* C9: the response of every explanations row, and the explanation of every
\* /explain success reply, has at most word_limit whitespace-delimited tokens.
C9_ResponseWithinWordLimit ==
    /\ \A k \in DOMAIN explanations :
            WordCount(explanations[k].response) <= explanations[k].word_limit
    /\ \A p \in Procs :
            \A k \in DOMAIN inv[p].replies :
                (inv[p].cmd = "explain" /\ inv[p].replies[k].kind = "success") =>
                    WordCount(inv[p].replies[k].data.explanation)
                        <= inv[p].replies[k].data.wordLimit

\* a generated text with leading whitespace and more words than the limit
\* was cut to the limit, saved and replied
C9_Witness ==
    \E p \in Procs :
        /\ inv[p].cmd = "explain" /\ inv[p].pc = "done"
        /\ inv[p].replies[1].kind = "success"
        /\ inv[p].explanation # <<>> /\ inv[p].explanation[1] = " "
        /\ WordCount(inv[p].explanation) = inv[p].wordLimit
        /\ \E k \in DOMAIN explanations :
                explanations[k].response = inv[p].explanation

\* C10: /tag with exactly one token that is empty once trimmed issues no
\* members query and ends with the one empty-class error reply.
C10_TagEmptyClassRejected ==
    \A p \in Procs :
        LET v == inv[p]
        IN  (/\ v.cmd = "tag"
             /\ Len(Args(v.text)) = 1
             /\ Trim(Args(v.text)[1]) = <<>>) =>
                /\ v.calls = <<>>
                /\ v.pc = "done"
                /\ Len(v.replies) = 1 /\ v.replies[1].kind = "empty"

\* C11: /add with three tokens that pass the checks and a successful insert
\* ends in one success reply that carries the id the store assigned to the
\* inserted row together with the submitted name, class and age.
C11_AddSuccessCarriesId ==
    \A p \in Procs :
        LET v == inv[p]
            args == Args(v.text)
        IN  (/\ v.cmd = "add" /\ v.pc = "done"
             /\ CallOut(v, "members.insert") = {"ok"}) =>
                /\ Len(args) = 3 /\ ~AddInputBad(v.text)
                /\ Len(v.replies) = 1
                /\ v.replies[1].kind = "success"
                /\ v.replies[1].data.first_name = args[1]
                /\ v.replies[1].data.class = args[2]
                /\ v.replies[1].data.age = ParseInt(args[3]).val
                /\ "id" \in DOMAIN v.replies[1].data
                /\ \E k \in DOMAIN members :
                        /\ members[k].id = v.replies[1].data.id
                        /\ members[k].first_name = args[1]
                        /\ members[k].class = args[2]
                        /\ members[k].age = ParseInt(args[3]).val
                        /\ members[k].added_by = v.user

PendingAt(v) == { k \in DOMAIN v.sent : v.sent[k].status = "pending" }

SentOk(v) == { k \in DOMAIN v.sent : v.sent[k].status = "ok" }

\* the batches of invocation id that chat c received, in the order received
DeliveredOf(c, id) == SelectSeq(delivered[c], LAMBDA e : e.inv = id)

InListOrder(d) == \A j \in DOMAIN d : d[j].i = (j - 1) * chunkSize

\* C12: a /tag or /alert invocation has at most one batch send in flight, the
\* one issued last, and every batch before it has completed; its batches are
\* the slices of its list in list order; and the batches a chat received
\* from one invocation arrived in list order, whatever other invocations
\* sent or called in between.
C12_OneSendAtATimeInOrder ==
    /\ \A p \in Procs :
            LET v == inv[p]
            IN  IsFanout(v) =>
                    /\ Cardinality(PendingAt(v)) <= 1
                    /\ \A k \in DOMAIN v.sent :
                            /\ k < Len(v.sent) => v.sent[k].status = "ok"
                            /\ v.sent[k].chunk =
                                    Slice(v.list, (k - 1) * chunkSize, k * chunkSize)
                    /\ Len(DeliveredOf(v.chat, v.id)) = Cardinality(SentOk(v))
    /\ \A c \in Chats : \A id \in 1..MaxCmds : InListOrder(DeliveredOf(c, id))

\* two invocations send to one chat at once: each has delivered its first
\* batch and has its second in flight
C12_Witness ==
    \E p, q \in Procs :
        /\ p # q
        /\ IsFanout(inv[p]) /\ IsFanout(inv[q])
        /\ inv[p].chat = inv[q].chat
        /\ inv[p].pc = "sending" /\ inv[q].pc = "sending"
        /\ Len(inv[p].sent) = 2 /\ Len(inv[q].sent) = 2
        /\ Len(delivered[inv[p].chat]) = 2

\* the rows among the first m of the members table whose /add was issued in
\* chat c, in table order
RECURSIVE FromChat(_, _, _)
FromChat(rows, orig, c) ==
    IF rows = <<>> THEN <<>>
    ELSE (IF orig[1] = c THEN <<rows[1]>> ELSE <<>>)
            \o FromChat(Tail(rows), Tail(orig), c)

AddedIn(c, m) == FromChat(SubSeq(members, 1, m), SubSeq(origin, 1, m), c)

\* C13: in the channel-scoped program, the lines of a /list reply in chat c
\* are exactly the rows added in chat c that the table held when it was
\* read, and the mentions of a /tag in chat c are exactly those of them whose
\* class matches: no row added in another chat appears in a list reply or in
\* a mention batch.
C13_ListAndTagStayInChat ==
    variant = "scoped" =>
        \A p \in Procs :
            LET v == inv[p]
            IN  /\ (v.cmd = "list" /\ v.replies # <<>> /\ v.replies[1].kind = "list") =>
                        \E m \in 0..Len(members) :
                            v.replies[1].data = ListLines(AddedIn(v.chat, m))
                /\ (v.cmd = "tag" /\ v.sent # <<>>) =>
                        /\ \E m \in 0..Len(members) :
                                v.list = TagMentions(
                                    SelectSeq(AddedIn(v.chat, m),
                                              LAMBDA r : ILike(r.class, v.className)))
                        /\ IsPrefix(Concat(Chunks(v)), v.list)

\* the table holds rows added in both chats, and a /list or a /tag of one
\* chat has answered with members
C13_Witness ==
    /\ variant = "scoped"
    /\ \E p \in Procs :
            /\ inv[p].pc = "done"
            /\ \/ /\ inv[p].cmd = "list" /\ inv[p].replies[1].kind = "list"
               \/ /\ inv[p].cmd = "tag" /\ inv[p].sent # <<>>
            /\ \E k \in DOMAIN origin : origin[k] = inv[p].chat
            /\ \E k \in DOMAIN origin : origin[k] # inv[p].chat

====
